---- MODULE Spec2Model ----
(***************************************************************************)
(* State-machine model of the Adafruit_AMG88xx driver                       *)
(* (src/Adafruit_AMG88xx.cpp).                                              *)
(*                                                                          *)
(* Temperatures are integers in units of 1/16 degree Celsius, so that the   *)
(* pixel scale 0.25 is 4 units and the thermistor scale 0.0625 is 1 unit.   *)
(* The bus adapter (Adafruit_I2CDevice) is an external collaborator: the    *)
(* model records every call the driver makes on it in `wire`, with the      *)
(* outcome (ok or failed) the adapter reported for it.                      *)
(***************************************************************************)
EXTENDS Integers, Sequences, FiniteSets, TLC

VARIABLES
  begun,     \* begin() has returned true: i2c_dev is bound and initialised
  intBits,   \* width of `int` in the build (16 on AVR, 32 elsewhere)
  mirror,    \* the bitfield members _pctl, _rst, _fpsc, _intc, _ave, _inthl...
  dev,       \* per register: last byte the adapter wrote successfully, or -1
  wire,      \* adapter calls made by the most recent operation, in order
  op,        \* the most recent operation and its arguments
  ret,       \* what the most recent operation returned
  nFail,     \* number of adapter transactions that have failed so far
  lastEn,    \* history: most recent enable (1) / disable (0), -1 if none
  lastMode,  \* history: most recent setInterruptMode argument, -1 if none
  chunk,     \* i2c_dev->maxBufferSize()
  seed,      \* selects the content of the device's readable registers
  buf,       \* elements of the caller's buffer the most recent read stored
  stores,    \* destination offsets read() stored to, in the order stored
  rawOob,    \* indices at which readPixels read rawArray outside its bounds
  exited,    \* the most recent read() has left its chunk loop
  word,      \* the 16-bit word the thermistor and pixel 0 registers hold
  clears     \* history: clearInterrupt calls made in a row up to now (capped)

vars == <<begun, intBits, mirror, dev, wire, op, ret, nFail, lastEn, lastMode,
          chunk, seed, buf, stores, rawOob, exited, word, clears>>

configVars == <<begun, mirror, dev, nFail, lastEn, lastMode>>
readVars == <<buf, stores, rawOob, exited>>
envVars == <<intBits, chunk, seed, word>>

----------------------------------------------------------------------------
(* Register map and command constants (Adafruit_AMG88xx.h, per spec 6).     *)

AMG88xx_PCTL == 0
AMG88xx_RST == 1
AMG88xx_FPSC == 2
AMG88xx_INTC == 3
AMG88xx_AVE == 7
AMG88xx_INTHL == 8
AMG88xx_INTHH == 9
AMG88xx_INTLL == 10
AMG88xx_INTLH == 11
AMG88xx_IHYSL == 12
AMG88xx_IHYSH == 13
AMG88xx_TTHL == 14
AMG88xx_INT_OFFSET == 16
AMG88xx_PIXEL_OFFSET == 128

AMG88xx_NORMAL_MODE == 0
AMG88xx_INITIAL_RESET == 63
AMG88xx_FLAG_RESET == 48
AMG88xx_FPS_10 == 0
AMG88xx_PIXEL_ARRAY_SIZE == 64
AMG88xx_PIXEL_TEMP_CONVERSION == 4
AMG88xx_THERMISTOR_CONVERSION == 1

ConfigRegs == {AMG88xx_PCTL, AMG88xx_RST, AMG88xx_FPSC, AMG88xx_INTC,
               AMG88xx_AVE, AMG88xx_INTHL, AMG88xx_INTHH, AMG88xx_INTLL,
               AMG88xx_INTLH, AMG88xx_IHYSL, AMG88xx_IHYSH}

----------------------------------------------------------------------------
(* Bounds of the model.                                                     *)

MaxFailures == 1

\* largest length given to a direct call of read()
MaxNum == 16

\* adapter transaction sizes: every size up to MaxChunk, and some larger ones
MaxChunk == 4
ChunkSizes == (1..MaxChunk) \cup {7, 8, 32, 128, 129, 256}

\* start registers given to a direct call of read()
StartRegs == {AMG88xx_TTHL, AMG88xx_PIXEL_OFFSET, 240}

\* element counts given to readPixels and to getInterrupt
MaxPixels == 4
PixelCounts == (0..MaxPixels) \cup {63, 64, 65, 127, 128, 129, 255}
MaxFlags == 9
FlagCounts == (0..MaxFlags) \cup {255}

\* contents of the device's readable registers
Seeds == {11, 200}

\* bytes an access outside an array may find
GarbageBytes == {0, 255}

\* arguments <<reg, num>> given to a direct call of read(): every start
\* register with every short length, and the longest read there is
ReadArgs == (StartRegs \X (0..MaxNum)) \cup { <<0, 255>> }

\* words the thermistor and pixel 0 registers may hold: bits 12..15 clear,
\* set and mixed, bit 11 clear and set, with the smallest and the largest
\* low 11 bits
MaxMag == 16
Magnitudes == (0..MaxMag) \cup {2047 - k : k \in 0..MaxMag}
HighNibbles == {0, 1, 8, 15}
Words == {(h * 4096) + (s * 2048) + m :
            h \in HighNibbles, s \in {0, 1}, m \in Magnitudes}

\* adapter sizes and element counts used where the device content varies
CodecChunks == {1, 32}
CodecCounts == {0, 1, 2, AMG88xx_PIXEL_ARRAY_SIZE}

\* the history counter `clears` stops counting here
MaxClears == 2

\* setInterruptLevels arguments <<high, low, hysteresis>>, in 1/16 degree:
\* (1024.0, -10000.0, 300.0) and (9.625, -9.625, 9.0)
LevelInputs == { <<16384, -160000, 4800>>, <<154, -154, 144>> }

----------------------------------------------------------------------------
(* Integer arithmetic of the build.                                         *)

\* k & (2^n - 1) for a two's-complement int k: the low n bits of k, which
\* are k modulo 2^n whatever the sign of k (mask = 2^n - 1)
AndMask(k, mask) == k % (mask + 1)

\* a >> n for a non-negative a
ShiftRight(a, n) == a \div (2 ^ n)

IntMax(bits) == IF bits = 16 THEN 32767 ELSE 2147483647
IntMin(bits) == -IntMax(bits) - 1

\* real division followed by conversion to an integer: truncation toward zero
TruncDiv(x, d) == IF x >= 0 THEN x \div d ELSE -((-x) \div d)

\* `int v = <float>`: the truncated value when it fits in an int; otherwise
\* the conversion is undefined and the build may produce any of these.
FloatToInt(q, bits) ==
  IF IntMin(bits) <= q /\ q <= IntMax(bits) THEN {q}
  ELSE {IntMin(bits), IntMax(bits)}
       \cup (IF bits = 16 THEN {((q + 32768) % 65536) - 32768} ELSE {})

constrain(x, lo, hi) == IF x < lo THEN lo ELSE IF x > hi THEN hi ELSE x

min(a, b) == IF a < b THEN a ELSE b

----------------------------------------------------------------------------
(* Register codec: get() of each bitfield struct.                           *)

pctl_get(m) == m.PCTL
rst_get(m) == m.RST
fpsc_get(m) == m.FPS % 2
intc_get(m) == (m.INTMOD * 2 + m.INTEN) % 4
ave_get(m) == m.MAMOD * 32
inthl_get(m) == m.INTHL
inthh_get(m) == m.INTHH
intll_get(m) == m.INTLL
intlh_get(m) == m.INTLH
ihysl_get(m) == m.IHYSL
ihysh_get(m) == m.IHYSH

\* the byte each mirrored register would put on the wire
MirrorByte(m, reg) ==
  CASE reg = AMG88xx_PCTL -> pctl_get(m)
    [] reg = AMG88xx_RST -> rst_get(m)
    [] reg = AMG88xx_FPSC -> fpsc_get(m)
    [] reg = AMG88xx_INTC -> intc_get(m)
    [] reg = AMG88xx_AVE -> ave_get(m)
    [] reg = AMG88xx_INTHL -> inthl_get(m)
    [] reg = AMG88xx_INTHH -> inthh_get(m)
    [] reg = AMG88xx_INTLL -> intll_get(m)
    [] reg = AMG88xx_INTLH -> intlh_get(m)
    [] reg = AMG88xx_IHYSL -> ihysl_get(m)
    [] reg = AMG88xx_IHYSH -> ihysh_get(m)

----------------------------------------------------------------------------
(* Adapter calls.                                                           *)

\* i2c_dev->write(buf, 1, true, prefix, 1): register address, then one byte
write(reg, value, ok) == [kind |-> "write", reg |-> reg, val |-> value, ok |-> ok]

write8(reg, value, ok) == write(reg, value, ok)

\* the value an operation hands back to its caller
Returned(kind, val) == [kind |-> kind, val |-> val]

\* i2c_dev->begin()
BusInit(ok) == [kind |-> "init", reg |-> -1, val |-> 0, ok |-> ok]

Delay(ms) == [kind |-> "delay", reg |-> -1, val |-> ms, ok |-> TRUE]

\* dev after the transactions of ws, in order
RECURSIVE Deliver(_, _)
Deliver(d, ws) ==
  IF ws = <<>> THEN d
  ELSE LET w == Head(ws)
       IN Deliver(IF w.kind = "write" /\ w.ok
                  THEN [d EXCEPT ![w.reg] = w.val] ELSE d, Tail(ws))

Failed(ws) == Cardinality({i \in DOMAIN ws : ws[i].kind # "init" /\ ~ws[i].ok})

\* outcomes the adapter may report for n transactions: f[i] is transaction i's
Outcomes(n) ==
  IF nFail >= MaxFailures THEN {[i \in 1..n |-> TRUE]}
  ELSE {f \in [1..n -> BOOLEAN] :
          nFail + Cardinality({i \in 1..n : ~f[i]}) <= MaxFailures}

----------------------------------------------------------------------------
(* Construction.                                                            *)

\* the driver object as constructed, before begin()
Constructed ==
  /\ begun = FALSE
  /\ mirror = [PCTL |-> 0, RST |-> 0, FPS |-> 0, INTEN |-> 0, INTMOD |-> 0,
               MAMOD |-> 0, INTHL |-> 0, INTHH |-> 0, INTLL |-> 0,
               INTLH |-> 0, IHYSL |-> 0, IHYSH |-> 0]
  /\ dev = [r \in ConfigRegs |-> -1]
  /\ wire = <<>>
  /\ op = [name |-> "none", args |-> <<>>]
  /\ ret = Returned("none", 0)
  /\ nFail = 0
  /\ lastEn = -1
  /\ lastMode = -1
  /\ buf = [i \in {} |-> 0]
  /\ stores = <<>>
  /\ rawOob = {}
  /\ exited = TRUE
  /\ clears = 0

\* the configuration path does not read: one adapter size, one device content
Init ==
  /\ Constructed
  /\ intBits \in {16, 32}
  /\ chunk = 32
  /\ seed = 11
  /\ word = 2064

----------------------------------------------------------------------------
(* Configuration operations.                                                *)

\* the common tail of an operation that wrote ws and left the mirror at m
Commit(name, args, m, ws, r) ==
  /\ mirror' = m
  /\ wire' = ws
  /\ dev' = Deliver(dev, ws)
  /\ nFail' = nFail + Failed(ws)
  /\ op' = [name |-> name, args |-> args]
  /\ ret' = r
  /\ clears' = IF name = "clearInterrupt" THEN min(clears + 1, MaxClears) ELSE 0

\* the mirror after begin()'s four assignments
BeginMirror(m) ==
  [m EXCEPT !.PCTL = AMG88xx_NORMAL_MODE, !.RST = AMG88xx_INITIAL_RESET,
            !.INTEN = 0, !.FPS = AMG88xx_FPS_10]

BeginCalls_FpsBeforeIntc(m, f) ==
  LET m1 == [m EXCEPT !.PCTL = AMG88xx_NORMAL_MODE]
      m2 == [m1 EXCEPT !.RST = AMG88xx_INITIAL_RESET]
      m3 == [m2 EXCEPT !.FPS = AMG88xx_FPS_10]
      m4 == [m3 EXCEPT !.INTEN = 0]
  IN << write8(AMG88xx_PCTL, pctl_get(m1), f[1]),
        write8(AMG88xx_RST, rst_get(m2), f[2]),
        write8(AMG88xx_FPSC, fpsc_get(m3), f[3]),
        write8(AMG88xx_INTC, intc_get(m4), f[4]),
        Delay(100) >>

\* what begin() does once the adapter is initialised, from mirror m: each
\* write sends the mirror as it stands when the write is made
BeginCalls(m, f) ==
  LET m1 == [m EXCEPT !.PCTL = AMG88xx_NORMAL_MODE]
      m2 == [m1 EXCEPT !.RST = AMG88xx_INITIAL_RESET]
      m3 == [m2 EXCEPT !.INTEN = 0]
      m4 == [m3 EXCEPT !.FPS = AMG88xx_FPS_10]
  IN << write8(AMG88xx_PCTL, pctl_get(m1), f[1]),
        write8(AMG88xx_RST, rst_get(m2), f[2]),
        write8(AMG88xx_INTC, intc_get(m3), f[3]),
        write8(AMG88xx_FPSC, fpsc_get(m4), f[4]),
        Delay(100) >>

begin_IgnoresInit(initOk, f) ==
  /\ ~begun
  /\ Commit("begin", <<>>, BeginMirror(mirror),
            << BusInit(initOk) >> \o BeginCalls(mirror, f), Returned("bool", 1))
  /\ begun' = TRUE
  /\ lastEn' = 0
  /\ UNCHANGED <<lastMode, envVars, readVars>>

begin(initOk, f) ==
  /\ ~begun
  /\ IF ~initOk
     THEN /\ Commit("begin", <<>>, mirror, << BusInit(initOk) >>,
                    Returned("bool", 0))
          /\ UNCHANGED <<begun, lastEn>>
     ELSE /\ Commit("begin", <<>>, BeginMirror(mirror),
                    << BusInit(initOk) >> \o BeginCalls(mirror, f),
                    Returned("bool", 1))
          /\ begun' = TRUE
          /\ lastEn' = 0
  /\ UNCHANGED <<lastMode, envVars, readVars>>

setMovingAverageMode_WritesFpsc(mode, f) ==
  /\ begun
  /\ LET m1 == [mirror EXCEPT !.FPS = IF mode THEN 1 ELSE 0]
     IN Commit("setMovingAverageMode", <<mode>>, m1,
               << write8(AMG88xx_FPSC, fpsc_get(m1), f[1]) >>, Returned("void", 0))
  /\ UNCHANGED <<begun, lastEn, lastMode, envVars, readVars>>

setMovingAverageMode(mode, f) ==
  /\ begun
  /\ LET m1 == [mirror EXCEPT !.MAMOD = IF mode THEN 1 ELSE 0]
     IN Commit("setMovingAverageMode", <<mode>>, m1,
               << write8(AMG88xx_AVE, ave_get(m1), f[1]) >>, Returned("void", 0))
  /\ UNCHANGED <<begun, lastEn, lastMode, envVars, readVars>>

enableInterrupt(f) ==
  /\ begun
  /\ LET m1 == [mirror EXCEPT !.INTEN = 1]
     IN Commit("enableInterrupt", <<>>, m1,
               << write8(AMG88xx_INTC, intc_get(m1), f[1]) >>, Returned("void", 0))
  /\ lastEn' = 1
  /\ UNCHANGED <<begun, lastMode, envVars, readVars>>

disableInterrupt(f) ==
  /\ begun
  /\ LET m1 == [mirror EXCEPT !.INTEN = 0]
     IN Commit("disableInterrupt", <<>>, m1,
               << write8(AMG88xx_INTC, intc_get(m1), f[1]) >>, Returned("void", 0))
  /\ lastEn' = 0
  /\ UNCHANGED <<begun, lastMode, envVars, readVars>>

setInterruptMode_ClearsEnable(mode, f) ==
  /\ begun
  /\ LET m1 == [mirror EXCEPT !.INTMOD = mode % 2, !.INTEN = 0]
     IN Commit("setInterruptMode", <<mode>>, m1,
               << write8(AMG88xx_INTC, intc_get(m1), f[1]) >>, Returned("void", 0))
  /\ lastMode' = mode
  /\ UNCHANGED <<begun, lastEn, envVars, readVars>>

setInterruptMode(mode, f) ==
  /\ begun
  /\ LET m1 == [mirror EXCEPT !.INTMOD = mode % 2]
     IN Commit("setInterruptMode", <<mode>>, m1,
               << write8(AMG88xx_INTC, intc_get(m1), f[1]) >>, Returned("void", 0))
  /\ lastMode' = mode
  /\ UNCHANGED <<begun, lastEn, envVars, readVars>>

clearInterrupt_Toggles(f) ==
  /\ begun
  /\ LET m1 == [mirror EXCEPT !.RST = IF mirror.RST = AMG88xx_FLAG_RESET
                                      THEN AMG88xx_INITIAL_RESET
                                      ELSE AMG88xx_FLAG_RESET]
     IN Commit("clearInterrupt", <<>>, m1,
               << write8(AMG88xx_RST, rst_get(m1), f[1]) >>, Returned("void", 0))
  /\ UNCHANGED <<begun, lastEn, lastMode, envVars, readVars>>

clearInterrupt(f) ==
  /\ begun
  /\ LET m1 == [mirror EXCEPT !.RST = AMG88xx_FLAG_RESET]
     IN Commit("clearInterrupt", <<>>, m1,
               << write8(AMG88xx_RST, rst_get(m1), f[1]) >>, Returned("void", 0))
  /\ UNCHANGED <<begun, lastEn, lastMode, envVars, readVars>>

\* the low-byte and high-nibble fields assigned from a converted limit
LowField(conv) == AndMask(conv, 255)
HighField(conv) == ShiftRight(AndMask(conv, 15), 4) % 16

setInterruptLevels(high, low, hysteresis, f) ==
  /\ begun
  /\ \E hq \in FloatToInt(TruncDiv(high, AMG88xx_PIXEL_TEMP_CONVERSION), intBits),
        lq \in FloatToInt(TruncDiv(low, AMG88xx_PIXEL_TEMP_CONVERSION), intBits),
        yq \in FloatToInt(TruncDiv(hysteresis, AMG88xx_PIXEL_TEMP_CONVERSION), intBits) :
       LET highConv == constrain(hq, -4095, 4095)
           lowConv == constrain(lq, -4095, 4095)
           hysConv == constrain(yq, -4095, 4095)
           m1 == [mirror EXCEPT !.INTHL = LowField(highConv),
                                !.INTHH = HighField(highConv)]
           m2 == [m1 EXCEPT !.INTLL = LowField(lowConv),
                            !.INTLH = HighField(lowConv)]
           m3 == [m2 EXCEPT !.IHYSL = LowField(hysConv),
                            !.IHYSH = HighField(hysConv)]
       IN Commit("setInterruptLevels", <<high, low, hysteresis>>, m3,
                 << write8(AMG88xx_INTHL, inthl_get(m1), f[1]),
                    write8(AMG88xx_INTHH, inthh_get(m1), f[2]),
                    write8(AMG88xx_INTLL, intll_get(m2), f[3]),
                    write8(AMG88xx_INTLH, intlh_get(m2), f[4]),
                    write8(AMG88xx_IHYSL, ihysl_get(m3), f[5]),
                    write8(AMG88xx_IHYSH, ihysh_get(m3), f[6]) >>, Returned("void", 0))
  /\ UNCHANGED <<begun, lastEn, lastMode, envVars, readVars>>

----------------------------------------------------------------------------
(* Numeric codec.                                                           *)

\* the int16_t holding the 16 bits w
ToInt16(w) == IF w >= 32768 THEN w - 65536 ELSE w

\* sVal >> 4 on a signed value: arithmetic shift, rounding toward -infinity
ArithShiftRight(v, n) == IF v >= 0 THEN v \div (2 ^ n) ELSE -(((-v) + (2 ^ n) - 1) \div (2 ^ n))

signedMag12ToFloat_TwosComplement(val) ==
  LET low12 == AndMask(val, 4095)
  IN IF low12 >= 2048 THEN low12 - 4096 ELSE low12

signedMag12ToFloat(val) ==
  LET absVal == AndMask(val, 2047)
  IN IF AndMask(val, 4095) >= 2048 THEN 0 - absVal ELSE absVal

int12ToFloat_NoSignExtend(val) ==
  LET sVal == (val * 16) % 65536
  IN ShiftRight(sVal, 4)

int12ToFloat(val) ==
  LET sVal == ToInt16((val * 16) % 65536)
  IN ArithShiftRight(sVal, 4)

----------------------------------------------------------------------------
(* Chunked transfer.                                                        *)

\* content of the device's register a (the device is not part of the
\* driver): the thermistor pair and the first pixel pair hold `word`, low
\* byte first, and every other register a byte that depends on its address
DevByte(a) ==
  LET r == a % 256
  IN IF r \in {AMG88xx_TTHL, AMG88xx_PIXEL_OFFSET} THEN word % 256
     ELSE IF r \in {AMG88xx_TTHL + 1, AMG88xx_PIXEL_OFFSET + 1} THEN word \div 256
     ELSE ((r * 37) + seed) % 256

\* i2c_dev->write(buffer, 1): the one-byte register address
AddrWrite(reg) == [kind |-> "addr", reg |-> reg, val |-> 1, ok |-> TRUE]

\* i2c_dev->read(dest, len)
BusRead(len) == [kind |-> "read", reg |-> -1, val |-> len, ok |-> TRUE]

ChunkStep_SameAddress(reg, num, chunkSize, st) ==
  IF ~(st.pos < num) THEN st
  ELSE LET a == reg % 256
           read_now == min(chunkSize % 256, (num - st.pos) % 256)
           copied == [i \in 1..read_now |->
                        << (st.pos + i - 1) % 256, DevByte(a + i - 1) >>]
       IN [pos |-> (st.pos + read_now) % 256,
           calls |-> st.calls \o << AddrWrite(a), BusRead(read_now) >>,
           stores |-> st.stores \o copied]

ChunkStep_FullChunk(reg, num, chunkSize, st) ==
  IF ~(st.pos < num) THEN st
  ELSE LET a == (reg + st.pos) % 256
           read_now == chunkSize % 256
           copied == [i \in 1..read_now |->
                        << (st.pos + i - 1) % 256, DevByte(a + i - 1) >>]
       IN [pos |-> (st.pos + read_now) % 256,
           calls |-> st.calls \o << AddrWrite(a), BusRead(read_now) >>,
           stores |-> st.stores \o copied]

\* one evaluation of `while (pos < num)` and, when it holds, of the loop
\* body; st holds pos, the adapter calls made and the <<offset, byte>> pairs
\* stored into the destination so far
ChunkStep(reg, num, chunkSize, st) ==
  IF ~(st.pos < num) THEN st
  ELSE LET a == (reg + st.pos) % 256
           read_now == min(chunkSize % 256, (num - st.pos) % 256)
           copied == [i \in 1..read_now |->
                        << (st.pos + i - 1) % 256, DevByte(a + i - 1) >>]
       IN [pos |-> (st.pos + read_now) % 256,
           calls |-> st.calls \o << AddrWrite(a), BusRead(read_now) >>,
           stores |-> st.stores \o copied]

\* `steps` successive evaluations of the loop, starting from st: the first
\* half of them, then the rest from the state `mid` the first half ends in
RECURSIVE ChunkLoop(_, _, _, _, _)

read_SkipsEmpty(reg, num, chunkSize) ==
  IF num = 0 THEN [calls |-> <<>>, stores |-> <<>>, exited |-> TRUE]
  ELSE IF chunkSize > num
  THEN [calls |-> << AddrWrite(reg), BusRead(num) >>,
        stores |-> [i \in 1..num |-> << i - 1, DevByte(reg + i - 1) >>],
        exited |-> TRUE]
  ELSE LET end == ChunkLoop(reg, num, chunkSize,
                            [pos |-> 0, calls |-> <<>>, stores |-> <<>>], num)
       IN [calls |-> end.calls, stores |-> end.stores,
           exited |-> ~(end.pos < num)]

read_NarrowsFirst(reg, num, chunkSize) ==
  IF chunkSize % 256 > num
  THEN [calls |-> << AddrWrite(reg), BusRead(num) >>,
        stores |-> [i \in 1..num |-> << i - 1, DevByte(reg + i - 1) >>],
        exited |-> TRUE]
  ELSE LET end == ChunkLoop(reg, num, chunkSize,
                            [pos |-> 0, calls |-> <<>>, stores |-> <<>>], num)
       IN [calls |-> end.calls, stores |-> end.stores,
           exited |-> ~(end.pos < num)]

ChunkLoop(reg, num, chunkSize, st, steps) ==
  IF steps <= 1 THEN ChunkStep(reg, num, chunkSize, st)
  ELSE CHOOSE end \in
         { ChunkLoop(reg, num, chunkSize, mid, steps - (steps \div 2)) :
             mid \in {ChunkLoop(reg, num, chunkSize, st, steps \div 2)} } : TRUE

\* read(reg, buf, num); the loop is followed for num evaluations, which is
\* as many as a loop that advances pos on every pass can take: `exited`
\* tells whether it has left the loop by then
read(reg, num, chunkSize) ==
  IF chunkSize > num
  THEN [calls |-> << AddrWrite(reg), BusRead(num) >>,
        stores |-> [i \in 1..num |-> << i - 1, DevByte(reg + i - 1) >>],
        exited |-> TRUE]
  ELSE LET end == ChunkLoop(reg, num, chunkSize,
                            [pos |-> 0, calls |-> <<>>, stores |-> <<>>], num)
       IN [calls |-> end.calls, stores |-> end.stores,
           exited |-> ~(end.pos < num)]

\* the destination after the stores st: offset -> the byte stored there last
Filled(st) ==
  IF \A i \in DOMAIN st : st[i][1] = i - 1
  THEN [o \in 0..(Len(st) - 1) |-> st[o + 1][2]]
  ELSE [o \in {st[i][1] : i \in DOMAIN st} |->
          st[CHOOSE i \in DOMAIN st :
               /\ st[i][1] = o
               /\ \A j \in DOMAIN st : st[j][1] = o => j <= i][2]]

Offsets(st) == [i \in DOMAIN st |-> st[i][1]]

\* the common tail of a read operation
CommitRead(name, args, r, dest, oob, rv) ==
  /\ wire' = r.calls
  /\ stores' = Offsets(r.stores)
  /\ buf' = dest
  /\ rawOob' = oob
  /\ exited' = r.exited
  /\ op' = [name |-> name, args |-> args]
  /\ ret' = rv
  /\ clears' = 0
  /\ UNCHANGED <<configVars, envVars>>

----------------------------------------------------------------------------
(* Read operations.                                                         *)

\* the private read(reg, buf, num), called directly
readRegisters(reg, num) ==
  /\ begun
  /\ \E r \in {read(reg, num, chunk)} :
       CommitRead("read", <<reg, num>>, r, Filled(r.stores), {},
                  Returned("void", 0))

getInterrupt(size) ==
  /\ begun
  /\ \E bytesToRead \in {min(size, 8)} :
       \E r \in {read(AMG88xx_INT_OFFSET, bytesToRead, chunk)} :
         CommitRead("getInterrupt", <<size>>, r, Filled(r.stores), {},
                    Returned("void", 0))

readThermistor ==
  /\ begun
  /\ \E r \in {read(AMG88xx_TTHL, 2, chunk)} :
       \E raw \in {Filled(r.stores)} :
         \E recast \in {raw[1] * 256 + raw[0]} :
           CommitRead("readThermistor", <<>>, r, [i \in {} |-> 0], {},
                      Returned("float", signedMag12ToFloat(recast)
                                          * AMG88xx_THERMISTOR_CONVERSION))

\* rawArray[p] for the rawArray read() filled; garbage is the byte an access
\* outside the array happens to find
RawAt(rawArray, bytesToRead, p, garbage) ==
  IF p < bytesToRead /\ p \in DOMAIN rawArray THEN rawArray[p] ELSE garbage

\* one pass of the conversion loop of readPixels: the value stored in buf[i]
Pixel(rawArray, bytesToRead, i, garbage) ==
  LET pos == (i * 2) % 256
      recast == RawAt(rawArray, bytesToRead, pos + 1, garbage) * 256
                  + RawAt(rawArray, bytesToRead, pos, garbage)
  IN int12ToFloat(recast) * AMG88xx_PIXEL_TEMP_CONVERSION

\* the rawArray indices the conversion loop reads for `size` elements
RawIndices(size) ==
  UNION {{(i * 2) % 256, ((i * 2) % 256) + 1} : i \in 0..(size - 1)}

readPixels_NoDoubling(size, garbage) ==
  /\ begun
  /\ \E bytesToRead \in {min(size % 256,
                             (AMG88xx_PIXEL_ARRAY_SIZE * 2) % 256)} :
       \E r \in {read(AMG88xx_PIXEL_OFFSET, bytesToRead, chunk)} :
         \E rawArray \in {Filled(r.stores)} :
           CommitRead("readPixels", <<size>>, r,
                      [i \in 0..(size - 1) |->
                         Pixel(rawArray, bytesToRead, i, garbage)],
                      {p \in RawIndices(size) : p >= bytesToRead},
                      Returned("void", 0))

readPixels(size, garbage) ==
  /\ begun
  /\ \E bytesToRead \in {min((size * 2) % 256,
                             (AMG88xx_PIXEL_ARRAY_SIZE * 2) % 256)} :
       \E r \in {read(AMG88xx_PIXEL_OFFSET, bytesToRead, chunk)} :
         \E rawArray \in {Filled(r.stores)} :
           CommitRead("readPixels", <<size>>, r,
                      [i \in 0..(size - 1) |->
                         Pixel(rawArray, bytesToRead, i, garbage)],
                      {p \in RawIndices(size) : p >= bytesToRead},
                      Returned("void", 0))

----------------------------------------------------------------------------

Next ==
  \/ \E initOk \in BOOLEAN, f \in Outcomes(4) : begin(initOk, f)
  \/ \E mode \in BOOLEAN, f \in Outcomes(1) : setMovingAverageMode(mode, f)
  \/ \E f \in Outcomes(1) : enableInterrupt(f)
  \/ \E f \in Outcomes(1) : disableInterrupt(f)
  \/ \E mode \in {0, 1}, f \in Outcomes(1) : setInterruptMode(mode, f)
  \/ \E f \in Outcomes(1) : clearInterrupt(f)
  \/ \E t \in LevelInputs, f \in Outcomes(6) :
        setInterruptLevels(t[1], t[2], t[3], f)

Spec == Init /\ [][Next]_vars

\* the read path: any adapter transaction size, any device content (the
\* width of int plays no part in it)
InitRead ==
  /\ Constructed
  /\ intBits = 16
  /\ chunk \in ChunkSizes
  /\ seed \in Seeds
  /\ word = 2064

NextRead ==
  \/ \E initOk \in BOOLEAN : begin(initOk, [i \in 1..4 |-> TRUE])
  \/ \E a \in ReadArgs : readRegisters(a[1], a[2])
  \/ \E size \in FlagCounts : getInterrupt(size)
  \/ readThermistor
  \/ \E size \in PixelCounts, garbage \in GarbageBytes : readPixels(size, garbage)

SpecRead == InitRead /\ [][NextRead]_vars

\* the numeric codec: any word in the thermistor and pixel 0 registers
InitCodec ==
  /\ Constructed
  /\ intBits = 16
  /\ chunk \in CodecChunks
  /\ seed = 11
  /\ word \in Words

NextCodec ==
  \/ \E initOk \in BOOLEAN : begin(initOk, [i \in 1..4 |-> TRUE])
  \/ readThermistor
  \/ \E size \in CodecCounts, garbage \in GarbageBytes : readPixels(size, garbage)

SpecCodec == InitCodec /\ [][NextCodec]_vars

----------------------------------------------------------------------------
(* Properties.                                                              *)

IsWrite(c, reg, val) == c.kind = "write" /\ c.reg = reg /\ c.val = val

\* the register transactions in ws: everything but the adapter's own begin()
OnBus(ws) == SelectSeq(ws, LAMBDA c : c.kind # "init")

BusFailure == \E i \in DOMAIN wire :
                wire[i].kind \in {"write", "addr", "read"} /\ ~wire[i].ok

ClaimedK(x) == constrain(TruncDiv(x, 4), -4095, 4095)
ClaimedLow(x) == ClaimedK(x) % 256
ClaimedHigh(x) == (ClaimedK(x) % 4096) \div 256

\* C2: for each of the three limits, the byte written to its low register
\* is k & 0xFF and the byte written to its high register is (k >> 8) & 0x0F,
\* with k = clamp(trunc(input / 0.25), -4095, 4095); an input clamping to
\* +4095 writes (0xFF, 0x0F).
C2_ThresholdBytes ==
  op.name = "setInterruptLevels" =>
    \A j \in 1..3 :
      /\ IsWrite(wire[2 * j - 1], 6 + 2 * j, ClaimedLow(op.args[j]))
      /\ IsWrite(wire[2 * j], 7 + 2 * j, ClaimedHigh(op.args[j]))

\* C3: a read of N bytes at register R, whatever the adapter's transaction
\* size, leaves at destination offset p the content of register R + p, for
\* every p below N, each offset stored exactly once.
C3_ChunkedEqualsSingle ==
  op.name = "read" =>
    LET R == op.args[1]
        N == op.args[2]
    IN /\ DOMAIN buf = 0..(N - 1)
       /\ \A p \in 0..(N - 1) : buf[p] = DevByte(R + p)
       /\ Len(stores) = N
       /\ \A p \in 0..(N - 1) : \E i \in DOMAIN stores : stores[i] = p

\* a read that took several chunks, the last one shorter than the others
C3_Witness ==
  /\ op.name = "read"
  /\ chunk < op.args[2] /\ op.args[2] % chunk # 0
  /\ Len(wire) > 4

\* the number of bytes the read transactions on the wire ask for in total
BytesRead ==
  Cardinality(UNION { {<<i, k>> : k \in 1..wire[i].val} :
                        i \in {j \in DOMAIN wire : wire[j].kind = "read"} })

\* C4: readPixels with n in 65..255 behaves like n = 64: it reads exactly
\* 128 bytes, never indexes rawArray at or beyond the bytes read and stores
\* only buf[0..63]; getInterrupt with n in 9..255 reads exactly 8 bytes and
\* stores only buf[0..7].
C4_OversizeReduced ==
  /\ (op.name = "readPixels" /\ op.args[1] \in 65..255) =>
       /\ BytesRead = 128
       /\ rawOob = {}
       /\ DOMAIN buf = 0..63
  /\ (op.name = "getInterrupt" /\ op.args[1] \in 9..255) =>
       /\ BytesRead = 8
       /\ DOMAIN buf = 0..7

\* C5: each mirrored register byte equals the last value successfully
\* written to that register, also when some bus writes fail.
C5_MirrorIsLastWritten ==
  \A r \in ConfigRegs : dev[r] # -1 => MirrorByte(mirror, r) = dev[r]

\* C6: every byte written to INTC (0x03) has bit 0 equal to the most recent
\* enable (1) / disable (0) and bit 1 equal to the most recent mode, and
\* enableInterrupt, disableInterrupt and setInterruptMode issue that one
\* write and no read.
C6_IntcFieldsPreserved ==
  /\ \A i \in DOMAIN wire :
       (wire[i].kind = "write" /\ wire[i].reg = 3) =>
         /\ wire[i].val \in 0..3
         /\ lastEn # -1 => wire[i].val % 2 = lastEn
         /\ lastMode # -1 => wire[i].val \div 2 = lastMode
  /\ op.name \in {"enableInterrupt", "disableInterrupt", "setInterruptMode"} =>
       /\ Len(wire) = 1
       /\ wire[1].kind = "write" /\ wire[1].reg = 3

\* the mode is set with the interrupt enabled, and the enable bit is kept
C6_Witness ==
  /\ op.name = "setInterruptMode" /\ op.args[1] = 1
  /\ lastEn = 1
  /\ wire[1].val = 3

\* C7: readPixels(buf, 0) issues no bus transaction at all and stores no
\* element of buf.
C7_NoTransaction ==
  (op.name = "readPixels" /\ op.args[1] = 0) =>
    /\ wire = <<>>
    /\ DOMAIN buf = {}

\* C7 as amended: readPixels(buf, 0) stores no element of buf, and what it
\* asks of the adapter is one write of the register address {0x80} followed
\* by one read of zero bytes, whatever the adapter's transaction size.
C7_AddressWriteOnly ==
  (op.name = "readPixels" /\ op.args[1] = 0) =>
    /\ Len(wire) = 2
    /\ wire[1].kind = "addr" /\ wire[1].reg = 128
    /\ wire[2].kind = "read" /\ wire[2].val = 0
    /\ DOMAIN buf = {}

C7_Witness ==
  op.name = "readPixels" /\ op.args[1] = 0 /\ chunk = 1 /\ Len(wire) = 2

\* C8: an operation one of whose bus transactions fails reports the failure
\* to its caller, and does not issue the failed transaction again.
C8_FailureSurfaced ==
  BusFailure =>
    /\ ret.kind = "error" \/ ret = Returned("bool", 0)
    /\ \A i \in DOMAIN wire : \A j \in DOMAIN wire :
         (i < j /\ ~wire[i].ok) => wire[j] # [wire[i] EXCEPT !.ok = wire[j].ok]

C10_ClampedNotRejected ==
  op.name = "setInterruptLevels" =>
    /\ Len(wire) = 6
    /\ \A j \in 1..3 :
         /\ wire[2 * j - 1].kind = "write" /\ wire[2 * j - 1].reg = 6 + 2 * j
         /\ op.args[j] >= 16380 => wire[2 * j - 1].val = 255
         /\ op.args[j] <= -16380 => wire[2 * j - 1].val = 1

\* the little-endian word the device holds for pixel i
PixelWord(i) ==
  DevByte(AMG88xx_PIXEL_OFFSET + (2 * i))
    + (256 * DevByte(AMG88xx_PIXEL_OFFSET + (2 * i) + 1))

\* the 12-bit two's-complement value of the low 12 bits of w
SignExtend12(w) == IF w % 4096 >= 2048 THEN (w % 4096) - 4096 ELSE w % 4096

\* C11: readPixels with n in 0..64 stores in buf[i], for every i below n,
\* 0.25 times the 12-bit two's-complement value (-2048..2047) of the low 12
\* bits of the little-endian word at registers 0x80+2i and 0x80+2i+1; bits
\* 12..15 of the word play no part.
C11_PixelDecoding ==
  (op.name = "readPixels" /\ op.args[1] \in 0..64) =>
    /\ DOMAIN buf = 0..(op.args[1] - 1)
    /\ \A i \in DOMAIN buf :
         /\ buf[i] = 4 * SignExtend12(PixelWord(i))
         /\ buf[i] \in {4 * s : s \in -2048..2047}

\* a full frame whose first pixel is negative and has bits above bit 11 set
C11_Witness ==
  /\ op.name = "readPixels" /\ op.args[1] = 64
  /\ word >= 4096 /\ buf[0] < 0
  /\ \E i \in 1..63 : buf[i] > 0

\* the number of bytes the read transactions on the wire ask for in total
\* is BytesRead; these are the register addresses written ahead of them
AddressesWritten == {wire[i].reg : i \in {j \in DOMAIN wire : wire[j].kind = "addr"}}

\* C12: readThermistor reads exactly two bytes at register 0x0E and returns
\* 0.0625 * m, where m has the magnitude w & 0x7FF of the little-endian word
\* w and is negative exactly when bit 11 of w is set and the magnitude is
\* not zero: m lies in -2047..2047, is zero for w = 0x000 and w = 0x800,
\* does not depend on bits 12..15, and bytes {0x10, 0x08} give m = -16.
C12_ThermistorDecoding ==
  op.name = "readThermistor" =>
    LET magnitude == word % 2048
        negative == (word \div 2048) % 2 = 1
        m == IF negative THEN -magnitude ELSE magnitude
    IN /\ BytesRead = 2
       /\ wire[1].kind = "addr" /\ wire[1].reg = 14
       /\ AddressesWritten \subseteq {14, 15}
       /\ \A i \in DOMAIN wire : wire[i].kind \in {"addr", "read"}
       /\ ret = Returned("float", m)
       /\ ret.val \in -2047..2047
       /\ word % 4096 \in {0, 2048} => ret.val = 0
       /\ word = 2064 => ret.val = -16

\* bytes {0x10, 0x08} under bits 12..15 that are set, read one byte at a time
C12_Witness ==
  /\ op.name = "readThermistor"
  /\ word = 61440 + 2064 /\ ret.val = -16
  /\ chunk = 1 /\ Len(wire) = 4

\* C13: every clearInterrupt call, from any reachable state, issues exactly
\* one bus write {0x01, 0x30} and no read, and a call that follows another
\* clearInterrupt call leaves the mirrored registers as the first left them.
C13_ClearIdempotent ==
  [][op'.name = "clearInterrupt" =>
       /\ Len(wire') = 1
       /\ IsWrite(wire'[1], 1, 48)
       /\ mirror' = [mirror EXCEPT !.RST = 48]
       /\ op.name = "clearInterrupt" => mirror' = mirror]_vars

\* a second clearInterrupt call in a row, acknowledged by the device, in a
\* run in which a write has failed
C13_Witness ==
  /\ op.name = "clearInterrupt" /\ clears = 2
  /\ wire[1].ok /\ nFail = 1 /\ dev[AMG88xx_RST] = 48
  /\ mirror.RST = 48

\* the number of write-address / read pairs on the wire
Transactions == Len(wire) \div 2

\* the bytes asked for by the first k read transactions on the wire
ReadBefore(k) ==
  Cardinality(UNION { {<<j, b>> : b \in 1..wire[2 * j].val} : j \in 1..k })

\* the wire is a sequence of pairs: a register-address write, then a read
Paired ==
  /\ Len(wire) = 2 * Transactions
  /\ \A k \in 1..Transactions :
       wire[(2 * k) - 1].kind = "addr" /\ wire[2 * k].kind = "read"

\* C14: whatever the adapter's transaction size, readPixels(buf, 64) issues
\* read transactions whose lengths total 128 bytes and that cover registers
\* 0x80..0xFF once each, in ascending order from 0x80; with a transaction
\* size of 32 these are four reads of 32 bytes each.
C14_FullFrameRead ==
  (op.name = "readPixels" /\ op.args[1] = 64) =>
    /\ Paired
    /\ BytesRead = 128
    /\ \A k \in 1..Transactions :
         /\ wire[2 * k].val >= 1
         /\ wire[(2 * k) - 1].reg = 128 + ReadBefore(k - 1)
    /\ 128 + ReadBefore(Transactions) = 256
    /\ chunk = 32 =>
         /\ Transactions = 4
         /\ \A k \in 1..4 : wire[2 * k].val = 32

\* the full frame read through an adapter of 32 bytes per transaction
C14_Witness ==
  /\ op.name = "readPixels" /\ op.args[1] = 64 /\ chunk = 32
  /\ Len(wire) = 8 /\ wire[7].reg = 224
  /\ DOMAIN buf = 0..63

\* C15: a read of N bytes at register R with adapter transaction size C: if
\* C > N, one write of {R} then one read of N bytes; otherwise write
\* {R + p}, read min(C, N - p) bytes, p being the bytes read so far, until
\* p = N. No read asks for more than C bytes, every read directly follows
\* its one-byte address write, and with C = 7 getInterrupt(buf, 8) is
\* write {0x10} / read 7, then write {0x17} / read 1.
C15_ChunkAlternation ==
  /\ op.name = "read" =>
       LET R == op.args[1]
           N == op.args[2]
       IN /\ Paired
          /\ \A k \in 1..Transactions :
               /\ wire[(2 * k) - 1].val = 1
               /\ wire[2 * k].val <= chunk
          /\ chunk > N =>
               /\ Transactions = 1
               /\ wire[1].reg = R /\ wire[2].val = N
          /\ chunk <= N =>
               /\ \A k \in 1..Transactions :
                    /\ ReadBefore(k - 1) < N
                    /\ wire[(2 * k) - 1].reg = (R + ReadBefore(k - 1)) % 256
                    /\ wire[2 * k].val = min(chunk, N - ReadBefore(k - 1))
               /\ ReadBefore(Transactions) = N
  /\ (op.name = "getInterrupt" /\ op.args[1] = 8 /\ chunk = 7) =>
       /\ Len(wire) = 4
       /\ wire[1].kind = "addr" /\ wire[1].reg = 16
       /\ wire[2].kind = "read" /\ wire[2].val = 7
       /\ wire[3].kind = "addr" /\ wire[3].reg = 23
       /\ wire[4].kind = "read" /\ wire[4].val = 1
       /\ stores = <<0, 1, 2, 3, 4, 5, 6, 7>>

\* the eight flag bytes through an adapter of 7 bytes per transaction
C15_Witness ==
  /\ op.name = "getInterrupt" /\ op.args[1] = 8 /\ chunk = 7
  /\ Len(wire) = 4 /\ DOMAIN buf = 0..7

\* C16: every read terminates: for every length N up to 255 and every
\* adapter transaction size C (those of 256 and more never reach the chunk
\* loop), the position p grows on every pass of the chunk loop, never goes
\* beyond N and never wraps around 8 bits, and the loop is left after at
\* most ceil(N / C) passes.
C16_ReadTerminates ==
  /\ op.name \in {"read", "getInterrupt", "readThermistor", "readPixels"} =>
       /\ exited
       /\ Paired
       /\ \A i \in DOMAIN stores : stores[i] = i - 1
  /\ op.name = "read" =>
       LET N == op.args[2]
       IN /\ chunk > N => Transactions = 1
          /\ chunk >= 256 => Transactions = 1
          /\ chunk <= N =>
               /\ Transactions <= (N + chunk - 1) \div chunk
               /\ \A k \in 1..Transactions :
                    /\ ReadBefore(k) > ReadBefore(k - 1)
                    /\ ReadBefore(k) <= N

\* the longest read, one byte per pass
C16_Witness ==
  /\ op.name = "read" /\ op.args[2] = 255 /\ chunk = 1
  /\ exited /\ Transactions = 255 /\ Len(stores) = 255

\* C17: once begin has succeeded, no other operation writes PCTL (0x00) or
\* FPSC (0x02), so their mirrors stay at NORMAL_MODE and 10 Hz; the only
\* register clearInterrupt writes is RST, and the only value written to RST
\* after begin is FLAG_RESET (0x30), never INITIAL_RESET (0x3F).
C17_ModeAndRateUntouched ==
  /\ begun => pctl_get(mirror) = 0 /\ fpsc_get(mirror) = 0
  /\ op.name \notin {"none", "begin"} =>
       \A i \in DOMAIN wire :
         wire[i].kind = "write" =>
           /\ wire[i].reg \notin {0, 2}
           /\ wire[i].reg = 1 => wire[i].val = 48
           /\ op.name = "clearInterrupt" => wire[i].reg = 1
  /\ (begun /\ op.name # "begin") =>
       /\ dev[AMG88xx_PCTL] \in {-1, 0}
       /\ dev[AMG88xx_FPSC] \in {-1, 0}
       /\ dev[AMG88xx_RST] \in {-1, 48, 63}

\* clearInterrupt after the averaging, the enable bit and the levels have
\* been set: the device still has the mode and the rate begin gave it
C17_Witness ==
  /\ op.name = "clearInterrupt"
  /\ mirror.MAMOD = 1 /\ mirror.INTEN = 1 /\ mirror.INTHL # 0
  /\ dev[AMG88xx_PCTL] = 0 /\ dev[AMG88xx_FPSC] = 0 /\ dev[AMG88xx_RST] = 48

====
